---------------------------- MODULE Spec2Model ----------------------------
(***************************************************************************)
(* Model of src/pose_extractor.py: the metric-derivation engine            *)
(* (calculate_angle, calculate_metrics) and the calibration record that    *)
(* main() prints.                                                          *)
(*                                                                         *)
(* Number representation.  The source works on Python floats; the model    *)
(* works on exact rationals over a grid:                                   *)
(*   - normalized coordinates x, y are integers in grid units;             *)
(*   - x_px, y_px are integers (pixels);                                   *)
(*   - visibility and confidence are integers in 1/1000;                   *)
(*   - px_to_mm is a fraction <<num, den>> in lowest terms, den > 0;       *)
(*   - angles are integers in 1/10000 degree, taken from tables of         *)
(*     math.acos / math.atan2 at the arguments the grid produces;          *)
(*   - a reported value (round(v, 1)) is an integer in 1/10.               *)
(* IEEE rounding of intermediate results is not modelled.                  *)
(*                                                                         *)
(* Python None / a missing key is the empty sequence, a present value v is *)
(* <<v>>.  A dict is a function on its key set.                            *)
(***************************************************************************)
EXTENDS Integers, Sequences, FiniteSets, TLC

VARIABLES pc, landmarks_dict, height_cm, px_to_mm, metrics, output

vars == <<pc, landmarks_dict, height_cm, px_to_mm, metrics, output>>

\* largest grid coordinate of the points the geometry rules are run on
MaxCoord == 2

\* pixels per grid unit: image.shape of the (square) input images
PxPerUnit == 5

-----------------------------------------------------------------------------
\* Python values

None == <<>>

Some(v) == <<v>>

Abs(n) == IF n < 0 THEN -n ELSE n

Min2(a, b) == IF a <= b THEN a ELSE b

RECURSIVE GCD(_, _)
GCD(a, b) == IF b = 0 THEN a ELSE GCD(b, a % b)

\* n / d as a fraction in lowest terms (d > 0)
Frac(n, d) == LET g == GCD(Abs(n), d) IN <<n \div g, d \div g>>

\* round-half-even of n / d  (d > 0)
RoundHalfEven(n, d) ==
  LET q == n \div d
      r == n - q * d
  IN  IF 2 * r < d THEN q
      ELSE IF 2 * r > d THEN q + 1
      ELSE IF q % 2 = 0 THEN q ELSE q + 1

\* a returned value / a raised exception
Return(v) == [raised |-> FALSE, ret |-> v]

RaiseError == [raised |-> TRUE, ret |-> None]

\* a / b  (true division)
TrueDiv(n, d) == IF d = 0 THEN RaiseError ELSE Return(Frac(n, d))

\* dict.get(key)
Get(d, k) == IF k \in DOMAIN d THEN Some(d[k]) ELSE None

\* truth value of an optional dict: None and {} are false
DictTruthy(o) == o # None /\ DOMAIN o[1] # {}

\* truth value of an optional number: None and 0 are false
NumTruthy(o) == o # None /\ o[1] # 0

\* the landmark record extract_landmarks builds for a joint
LM(x, y, v) ==
  [x |-> x, y |-> y, z |-> 0, visibility |-> v,
   x_px |-> x * PxPerUnit, y_px |-> y * PxPerUnit]

-----------------------------------------------------------------------------
\* math functions

\* math.degrees(math.acos(s * sqrt(p/q))) in 1/10000 degree, keyed by <<s, p, q>>, p/q in lowest terms, 0 <= p < q,
\* for the angles of points with coordinates in 0 .. 3
ACosTable ==
  (<<-1, 1, 2>> :> 1350000)
  @@ (<<-1, 1, 5>> :> 1165651)
  @@ (<<-1, 1, 10>> :> 1084349)
  @@ (<<-1, 4, 5>> :> 1534349)
  @@ (<<-1, 4, 13>> :> 1236901)
  @@ (<<-1, 9, 10>> :> 1615651)
  @@ (<<-1, 16, 25>> :> 1431301)
  @@ (<<0, 0, 1>> :> 900000)
  @@ (<<1, 1, 2>> :> 450000)
  @@ (<<1, 1, 5>> :> 634349)
  @@ (<<1, 1, 10>> :> 715651)
  @@ (<<1, 1, 26>> :> 786901)
  @@ (<<1, 1, 50>> :> 818699)
  @@ (<<1, 4, 5>> :> 265651)
  @@ (<<1, 4, 13>> :> 563099)
  @@ (<<1, 9, 10>> :> 184349)
  @@ (<<1, 9, 13>> :> 336901)
  @@ (<<1, 9, 25>> :> 531301)
  @@ (<<1, 16, 25>> :> 368699)
  @@ (<<1, 16, 65>> :> 602551)
  @@ (<<1, 25, 26>> :> 113099)
  @@ (<<1, 49, 50>> :> 81301)
  @@ (<<1, 49, 65>> :> 297449)
  @@ (<<1, 49, 130>> :> 521250)
  @@ (<<1, 64, 65>> :> 71250)
  @@ (<<1, 81, 130>> :> 378750)
  @@ (<<1, 121, 130>> :> 152551)
  @@ (<<1, 144, 169>> :> 226199)

\* math.degrees(math.atan2(dy, dx)) in 1/10000 degree, keyed by <<dy, dx>> in lowest terms,
\* for |dy|, |dx| <= 3
ATan2Table ==
  (<<-3, -2>> :> -1236901)
  @@ (<<-3, -1>> :> -1084349)
  @@ (<<-3, 1>> :> -715651)
  @@ (<<-3, 2>> :> -563099)
  @@ (<<-2, -3>> :> -1463099)
  @@ (<<-2, -1>> :> -1165651)
  @@ (<<-2, 1>> :> -634349)
  @@ (<<-2, 3>> :> -336901)
  @@ (<<-1, -3>> :> -1615651)
  @@ (<<-1, -2>> :> -1534349)
  @@ (<<-1, -1>> :> -1350000)
  @@ (<<-1, 0>> :> -900000)
  @@ (<<-1, 1>> :> -450000)
  @@ (<<-1, 2>> :> -265651)
  @@ (<<-1, 3>> :> -184349)
  @@ (<<0, -1>> :> 1800000)
  @@ (<<0, 1>> :> 0)
  @@ (<<1, -3>> :> 1615651)
  @@ (<<1, -2>> :> 1534349)
  @@ (<<1, -1>> :> 1350000)
  @@ (<<1, 0>> :> 900000)
  @@ (<<1, 1>> :> 450000)
  @@ (<<1, 2>> :> 265651)
  @@ (<<1, 3>> :> 184349)
  @@ (<<2, -3>> :> 1463099)
  @@ (<<2, -1>> :> 1165651)
  @@ (<<2, 1>> :> 634349)
  @@ (<<2, 3>> :> 336901)
  @@ (<<3, -2>> :> 1236901)
  @@ (<<3, -1>> :> 1084349)
  @@ (<<3, 1>> :> 715651)
  @@ (<<3, 2>> :> 563099)

Sgn(n) == IF n > 0 THEN 1 ELSE IF n < 0 THEN -1 ELSE 0

\* math.degrees(math.acos(max(-1, min(1, n / sqrt(d2)))))  (d2 > 0)
ACosDeg(n, d2) ==
  IF n * n >= d2 THEN (IF n > 0 THEN 0 ELSE 1800000)
  ELSE LET g == GCD(n * n, d2) IN ACosTable[<<Sgn(n), (n * n) \div g, d2 \div g>>]

\* math.degrees(math.atan2(dy, dx)); atan2(0, 0) is 0
ATan2Deg(dy, dx) ==
  IF dy = 0 /\ dx = 0 THEN 0
  ELSE LET g == GCD(Abs(dy), Abs(dx)) IN ATan2Table[<<dy \div g, dx \div g>>]

-----------------------------------------------------------------------------
\* calculate_angle

\* squared length of q - p in the (x, y) plane
SqDist(p, q) == (q.x - p.x) * (q.x - p.x) + (q.y - p.y) * (q.y - p.y)

\* the guard of calculate_angle is missing: the division is reached with a * b = 0
calculate_angle_unguarded(p1, p2, p3) ==
  LET a2 == SqDist(p1, p2)
      b2 == SqDist(p2, p3)
      c2 == SqDist(p1, p3)
  IN  IF 4 * a2 * b2 = 0 THEN RaiseError
      ELSE Return(Some(ACosDeg(a2 + b2 - c2, 4 * a2 * b2)))

\* Angle at p2 formed by p1-p2-p3: None when a * b == 0, else the angle.
\* a, b, c are the square roots of a2, b2, c2; cos_angle is
\* (a2 + b2 - c2) / sqrt(4 * a2 * b2), a ZeroDivisionError when 2ab = 0.
calculate_angle(p1, p2, p3) ==
  LET a2 == SqDist(p1, p2)
      b2 == SqDist(p2, p3)
      c2 == SqDist(p1, p3)
  IN  IF a2 * b2 = 0 THEN Return(None)
      ELSE IF 4 * a2 * b2 = 0 THEN RaiseError
      ELSE Return(Some(ACosDeg(a2 + b2 - c2, 4 * a2 * b2)))

-----------------------------------------------------------------------------
\* calculate_metrics, rule by rule

MetricNames ==
  {"craniovertebral_angle", "forward_head_posture", "shoulder_height_delta",
   "thoracic_kyphosis", "knee_valgus_varus", "foot_progression_angle"}

Metric(value, unit, confidence) ==
  [value |-> value, unit |-> unit, confidence |-> confidence]

\* the left ankle is preferred to the right one
Calibration_left_first(front, user_height_cm) ==
  IF DictTruthy(front) /\ NumTruthy(user_height_cm)
  THEN LET nose  == Get(front[1], 0)
           ankle == IF Get(front[1], 27) # None THEN Get(front[1], 27)
                    ELSE Get(front[1], 28)
       IN  IF nose # None /\ ankle # None
           THEN LET body_height_px == Abs(nose[1].y_px - ankle[1].y_px)
                IN  IF body_height_px > 0
                    THEN TrueDiv(user_height_cm[1] * 10, body_height_px)
                    ELSE Return(<<1, 1>>)
           ELSE Return(<<1, 1>>)
  ELSE Return(<<1, 1>>)

\* Calibration: the pixel to mm ratio px_to_mm
Calibration(front, user_height_cm) ==
  IF DictTruthy(front) /\ NumTruthy(user_height_cm)
  THEN LET nose  == Get(front[1], 0)
           ankle == IF Get(front[1], 28) # None THEN Get(front[1], 28)
                    ELSE Get(front[1], 27)
       IN  IF nose # None /\ ankle # None
           THEN LET body_height_px == Abs(nose[1].y_px - ankle[1].y_px)
                IN  IF body_height_px > 0
                    THEN TrueDiv(user_height_cm[1] * 10, body_height_px)
                    ELSE Return(<<1, 1>>)
           ELSE Return(<<1, 1>>)
  ELSE Return(<<1, 1>>)

\* the gate accepts visibility 0.5
CraniovertebralAngle_ge(right) ==
  IF DictTruthy(right)
  THEN LET ear      == Get(right[1], 8)
           shoulder == Get(right[1], 12)
       IN  IF /\ ear # None /\ shoulder # None
              /\ ear[1].visibility >= 500 /\ shoulder[1].visibility >= 500
           THEN LET dx    == ear[1].x - shoulder[1].x
                    dy    == ear[1].y - shoulder[1].y
                    angle == ATan2Deg(dy, dx)
                    cva   == 900000 - Abs(angle)
                IN  Return(Some(Metric(RoundHalfEven(cva, 1000), "degrees",
                           Min2(ear[1].visibility, shoulder[1].visibility))))
           ELSE Return(None)
  ELSE Return(None)

\* 1. Craniovertebral Angle (from right lateral)
CraniovertebralAngle(right) ==
  IF DictTruthy(right)
  THEN LET ear      == Get(right[1], 8)
           shoulder == Get(right[1], 12)
       IN  IF /\ ear # None /\ shoulder # None
              /\ ear[1].visibility > 500 /\ shoulder[1].visibility > 500
           THEN LET dx    == ear[1].x - shoulder[1].x
                    dy    == ear[1].y - shoulder[1].y
                    angle == ATan2Deg(dy, dx)
                    cva   == 900000 - Abs(angle)
                IN  Return(Some(Metric(RoundHalfEven(cva, 1000), "degrees",
                           Min2(ear[1].visibility, shoulder[1].visibility))))
           ELSE Return(None)
  ELSE Return(None)

\* the pixel offset is reported without the scale factor
ForwardHeadPosture_unscaled(right, scale) ==
  IF DictTruthy(right)
  THEN LET ear      == Get(right[1], 8)
           shoulder == Get(right[1], 12)
       IN  IF /\ ear # None /\ shoulder # None
              /\ ear[1].visibility > 500 /\ shoulder[1].visibility > 500
           THEN LET fhp_px == Abs(ear[1].x_px - shoulder[1].x_px)
                IN  Return(Some(Metric(RoundHalfEven(fhp_px * 10, 1), "mm",
                           Min2(ear[1].visibility, shoulder[1].visibility))))
           ELSE Return(None)
  ELSE Return(None)

\* 2. Forward Head Posture (from right lateral); scale is px_to_mm
ForwardHeadPosture(right, scale) ==
  IF DictTruthy(right)
  THEN LET ear      == Get(right[1], 8)
           shoulder == Get(right[1], 12)
       IN  IF /\ ear # None /\ shoulder # None
              /\ ear[1].visibility > 500 /\ shoulder[1].visibility > 500
           THEN LET fhp_px == Abs(ear[1].x_px - shoulder[1].x_px)
                IN  Return(Some(Metric(RoundHalfEven(fhp_px * scale[1] * 10, scale[2]),
                           "mm",
                           Min2(ear[1].visibility, shoulder[1].visibility))))
           ELSE Return(None)
  ELSE Return(None)

\* 3. Shoulder Height Delta (from front); scale is px_to_mm
ShoulderHeightDelta(front, scale) ==
  IF DictTruthy(front)
  THEN LET left_shoulder  == Get(front[1], 11)
           right_shoulder == Get(front[1], 12)
       IN  IF /\ left_shoulder # None /\ right_shoulder # None
              /\ left_shoulder[1].visibility > 500
              /\ right_shoulder[1].visibility > 500
           THEN LET delta_px == Abs(left_shoulder[1].y_px - right_shoulder[1].y_px)
                IN  Return(Some(Metric(RoundHalfEven(delta_px * scale[1] * 10, scale[2]),
                           "mm",
                           Min2(left_shoulder[1].visibility,
                                right_shoulder[1].visibility))))
           ELSE Return(None)
  ELSE Return(None)

\* a point with its coordinates in half grid units
Twice(p) == [x |-> 2 * p.x, y |-> 2 * p.y]

\* the angle is reported instead of 180 - angle
ThoracicKyphosis_angle(right) ==
  IF DictTruthy(right)
  THEN LET shoulder == Get(right[1], 12)
           hip      == Get(right[1], 24)
       IN  IF /\ shoulder # None /\ hip # None
              /\ shoulder[1].visibility > 500 /\ hip[1].visibility > 500
           THEN LET mid_back == [x |-> shoulder[1].x + hip[1].x,
                                 y |-> shoulder[1].y + hip[1].y]
                    angle    == calculate_angle(Twice(shoulder[1]), mid_back,
                                                Twice(hip[1]))
                IN  IF angle.raised THEN RaiseError
                    ELSE IF angle.ret # None /\ angle.ret[1] # 0
                    THEN Return(Some(Metric(RoundHalfEven(angle.ret[1], 1000),
                           "degrees",
                           (Min2(shoulder[1].visibility, hip[1].visibility) * 7) \div 10)))
                    ELSE Return(None)
           ELSE Return(None)
  ELSE Return(None)

\* 4. Thoracic Kyphosis (from right lateral).  mid_back is the midpoint
\* ((shoulder.x + hip.x) / 2, (shoulder.y + hip.y) / 2); the three points are
\* handed to calculate_angle in half grid units, where the midpoint is integral.
ThoracicKyphosis(right) ==
  IF DictTruthy(right)
  THEN LET shoulder == Get(right[1], 12)
           hip      == Get(right[1], 24)
       IN  IF /\ shoulder # None /\ hip # None
              /\ shoulder[1].visibility > 500 /\ hip[1].visibility > 500
           THEN LET mid_back == [x |-> shoulder[1].x + hip[1].x,
                                 y |-> shoulder[1].y + hip[1].y]
                    angle    == calculate_angle(Twice(shoulder[1]), mid_back,
                                                Twice(hip[1]))
                IN  IF angle.raised THEN RaiseError
                    ELSE IF angle.ret # None /\ angle.ret[1] # 0
                    THEN Return(Some(Metric(RoundHalfEven(1800000 - angle.ret[1], 1000),
                           "degrees",
                           (Min2(shoulder[1].visibility, hip[1].visibility) * 7) \div 10)))
                    ELSE Return(None)
           ELSE Return(None)
  ELSE Return(None)

\* the confidence leaves out the ankle
KneeValgusVarus_two(front) ==
  IF DictTruthy(front)
  THEN LET left_hip   == Get(front[1], 23)
           left_knee  == Get(front[1], 25)
           left_ankle == Get(front[1], 27)
       IN  IF /\ left_hip # None /\ left_knee # None /\ left_ankle # None
              /\ left_hip[1].visibility > 500
              /\ left_knee[1].visibility > 500
              /\ left_ankle[1].visibility > 500
           THEN LET angle == calculate_angle(left_hip[1], left_knee[1], left_ankle[1])
                IN  IF angle.raised THEN RaiseError
                    ELSE IF angle.ret # None /\ angle.ret[1] # 0
                    THEN Return(Some(Metric(RoundHalfEven(1800000 - angle.ret[1], 1000),
                           "degrees",
                           Min2(left_hip[1].visibility, left_knee[1].visibility))))
                    ELSE Return(None)
           ELSE Return(None)
  ELSE Return(None)

\* 5. Knee Valgus (from front - left knee)
KneeValgusVarus(front) ==
  IF DictTruthy(front)
  THEN LET left_hip   == Get(front[1], 23)
           left_knee  == Get(front[1], 25)
           left_ankle == Get(front[1], 27)
       IN  IF /\ left_hip # None /\ left_knee # None /\ left_ankle # None
              /\ left_hip[1].visibility > 500
              /\ left_knee[1].visibility > 500
              /\ left_ankle[1].visibility > 500
           THEN LET angle == calculate_angle(left_hip[1], left_knee[1], left_ankle[1])
                IN  IF angle.raised THEN RaiseError
                    ELSE IF angle.ret # None /\ angle.ret[1] # 0
                    THEN Return(Some(Metric(RoundHalfEven(1800000 - angle.ret[1], 1000),
                           "degrees",
                           Min2(left_hip[1].visibility,
                                Min2(left_knee[1].visibility,
                                     left_ankle[1].visibility)))))
                    ELSE Return(None)
           ELSE Return(None)
  ELSE Return(None)

\* 6. Foot Progression Angle (from front)
FootProgressionAngle(front) ==
  IF DictTruthy(front)
  THEN LET heel == Get(front[1], 29)
           toe  == Get(front[1], 31)
       IN  IF /\ heel # None /\ toe # None
              /\ heel[1].visibility > 500 /\ toe[1].visibility > 500
           THEN LET dx    == toe[1].x - heel[1].x
                    dy    == toe[1].y - heel[1].y
                    angle == ATan2Deg(dx, dy)
                IN  Return(Some(Metric(RoundHalfEven(Abs(angle), 1000), "degrees",
                           Min2(heel[1].visibility, toe[1].visibility))))
           ELSE Return(None)
  ELSE Return(None)

\* calculate_metrics(landmarks_dict, user_height_cm): the report, the scale
\* factor it used, and whether an exception left the function
calculate_metrics(lms, user_height_cm) ==
  LET front == lms.front
      right == lms.right
      cal   == Calibration(front, user_height_cm)
  IN  IF cal.raised THEN [raised |-> TRUE, px_to_mm |-> None, metrics |-> <<>>]
      ELSE
      LET rule == [n \in MetricNames |->
                    CASE n = "craniovertebral_angle"  -> CraniovertebralAngle(right)
                      [] n = "forward_head_posture"   -> ForwardHeadPosture(right, cal.ret)
                      [] n = "shoulder_height_delta"  -> ShoulderHeightDelta(front, cal.ret)
                      [] n = "thoracic_kyphosis"      -> ThoracicKyphosis(right)
                      [] n = "knee_valgus_varus"      -> KneeValgusVarus(front)
                      [] n = "foot_progression_angle" -> FootProgressionAngle(front)]
          present == {n \in MetricNames : rule[n].ret # None}
      IN  [raised   |-> \E n \in MetricNames : rule[n].raised,
           px_to_mm |-> cal.ret,
           metrics  |-> [n \in present |-> rule[n].ret[1]]]

-----------------------------------------------------------------------------
\* Inputs of main(): the four extract_landmarks results and the height argument

Grid == 0 .. MaxCoord

Points == Grid \X Grid

\* a landmark at grid point p
At(p, v) == LM(p[1], p[2], v)

\* the dict holding the joints j for which opts[j] is not None
MkDict(opts) == [j \in {k \in DOMAIN opts : opts[k] # None} |-> opts[j][1]]

Heights == {-170, 0, 170, 180}

HeightInputs == {None} \cup {Some(h) : h \in Heights}

GateVisibility == {300, 500, 600, 1000}

Optional(S) == {None} \cup {Some(s) : s \in S}

\* a right view whose ear, shoulder and hip are all usable
FullRight ==
  MkDict((8 :> Some(LM(0, 1, 900))) @@ (12 :> Some(LM(2, 1, 800)))
         @@ (24 :> Some(LM(1, 2, 700))))

\* a front view in which every joint the engine reads is usable
FullFront ==
  MkDict((0 :> Some(LM(1, 20, 900))) @@ (28 :> Some(LM(1, 220, 900)))
         @@ (27 :> Some(LM(1, 2, 900)))
         @@ (11 :> Some(LM(0, 40, 900))) @@ (12 :> Some(LM(2, 43, 800)))
         @@ (23 :> Some(LM(1, 0, 900))) @@ (25 :> Some(LM(2, 1, 700)))
         @@ (29 :> Some(LM(0, 0, 900))) @@ (31 :> Some(LM(1, 2, 600))))

\* front views for the calibration: nose (0), right ankle (28), left ankle (27)
\* and the two shoulders (11, 12), each present or missing
CalibrationFronts ==
  {None, Some(<<>>)} \cup
  { Some(MkDict((0 :> nose) @@ (28 :> r_ankle) @@ (27 :> l_ankle)
                @@ (11 :> l_sh) @@ (12 :> r_sh))) :
      nose    \in Optional({LM(1, 20, 900)}),
      r_ankle \in Optional({LM(1, 220, 900), LM(1, 20, 900)}),
      l_ankle \in Optional({LM(1, 2, 900), LM(1, 20, 400)}),
      l_sh    \in Optional({LM(0, 40, 900), LM(0, 40, 500)}),
      r_sh    \in Optional({LM(2, 43, 800), LM(2, 43, 300)}) }

\* right views in which ear (8), shoulder (12) and hip (24) are each missing
\* or present with a visibility around the gate
GateRights ==
  {None, Some(<<>>)} \cup
  { Some(MkDict((8 :> ear) @@ (12 :> shoulder) @@ (24 :> hip))) :
      ear      \in Optional({LM(0, 1, v) : v \in GateVisibility}),
      shoulder \in Optional({LM(2, 1, v) : v \in GateVisibility}),
      hip      \in Optional({LM(1, 2, v) : v \in GateVisibility}) }

\* right views with ear, shoulder and hip anywhere on the grid
GeometryRights ==
  { Some(MkDict((8 :> Some(At(ear, 900))) @@ (12 :> Some(At(shoulder, 800)))
                @@ (24 :> Some(At(hip, 700))))) :
      ear \in Points, shoulder \in Points, hip \in Points }

\* front views in which the knee and foot joints are each missing or present
\* with a visibility around the gate
GateFronts ==
  { Some(MkDict((11 :> Some(LM(0, 40, 900))) @@ (12 :> Some(LM(2, 43, 800)))
                @@ (23 :> hip) @@ (25 :> knee) @@ (27 :> ankle)
                @@ (29 :> heel) @@ (31 :> toe))) :
      hip   \in Optional({LM(1, 0, v) : v \in {500, 600, 1000}}),
      knee  \in Optional({LM(2, 1, v) : v \in {500, 600, 1000}}),
      ankle \in Optional({LM(1, 2, v) : v \in {500, 600, 1000}}),
      heel  \in Optional({LM(0, 0, v) : v \in {500, 1000}}),
      toe   \in Optional({LM(1, 2, v) : v \in {300, 600}}) }

\* front views with left hip, knee and ankle anywhere on the grid
KneeFronts ==
  { Some(MkDict((0 :> Some(LM(1, 1, 900)))
                @@ (23 :> Some(At(hip, 900))) @@ (25 :> Some(At(knee, 700)))
                @@ (27 :> Some(At(ankle, 800))))) :
      hip \in Points, knee \in Points, ankle \in Points }

\* front views with left heel and left foot index anywhere on the grid
FootFronts ==
  { Some(MkDict((29 :> Some(At(heel, 900))) @@ (31 :> Some(At(toe, 600))))) :
      heel \in Points, toe \in Points }

Views(front, left, right, back) ==
  [front |-> front, left |-> left, right |-> right, back |-> back]

InitCalibration ==
  /\ \E front \in CalibrationFronts, right \in {None, Some(FullRight)} :
       landmarks_dict = Views(front, None, right, None)
  /\ height_cm \in HeightInputs

InitRightGate ==
  /\ \E right \in GateRights, other \in {None, Some(FullFront)} :
       landmarks_dict = Views(other, other, right, other)
  /\ height_cm \in {None, Some(170)}

InitRightGeometry ==
  /\ \E right \in GeometryRights :
       landmarks_dict = Views(Some(FullFront), None, right, Some(<<>>))
  /\ height_cm \in {None, Some(170)}

InitFrontGate ==
  /\ \E front \in GateFronts, other \in {None, Some(FullRight)} :
       landmarks_dict = Views(front, other, other, other)
  /\ height_cm \in {None, Some(170)}

InitKnee ==
  /\ \E front \in KneeFronts :
       landmarks_dict = Views(front, Some(<<>>), Some(FullRight), None)
  /\ height_cm \in {None, Some(170)}

InitFoot ==
  /\ \E front \in FootFronts :
       landmarks_dict = Views(front, None, None, None)
  /\ height_cm \in {None, Some(-170), Some(170)}

\* main() has parsed its arguments and extracted the landmarks of the four
\* views; calculate_metrics has not been called yet
Init ==
  /\ pc = "main"
  /\ px_to_mm = None
  /\ metrics = <<>>
  /\ output = None
  /\ \/ InitCalibration
     \/ InitRightGate
     \/ InitRightGeometry
     \/ InitFrontGate
     \/ InitKnee
     \/ InitFoot

\* metrics = calculate_metrics(landmarks_dict, height_cm)
CalculateMetrics ==
  /\ pc = "main"
  /\ LET r == calculate_metrics(landmarks_dict, height_cm)
     IN  IF r.raised
         THEN /\ pc' = "raised"
              /\ UNCHANGED <<px_to_mm, metrics>>
         ELSE /\ pc' = "computed"
              /\ px_to_mm' = r.px_to_mm
              /\ metrics' = r.metrics
  /\ UNCHANGED <<landmarks_dict, height_cm, output>>

\* main() builds and prints the output document
Output ==
  /\ pc = "computed"
  /\ pc' = "printed"
  /\ output' = Some([landmarks   |-> landmarks_dict,
                     metrics     |-> metrics,
                     calibration |->
                       [user_height_cm |-> height_cm,
                        method |-> IF NumTruthy(height_cm) THEN "user_provided"
                                   ELSE "uncalibrated"]])
  /\ UNCHANGED <<landmarks_dict, height_cm, px_to_mm, metrics>>

Next == CalculateMetrics \/ Output

Spec == Init /\ [][Next]_vars

-----------------------------------------------------------------------------
\* Vocabulary of the properties

\* calculate_metrics has returned its report
Computed == pc \in {"computed", "printed"}

\* view holds joint j
Has(view, j) == landmarks_dict[view] # None /\ j \in DOMAIN landmarks_dict[view][1]

Joint(view, j) == landmarks_dict[view][1][j]

\* joints j and k of view are at the same (x, y)
SamePoint(view, j, k) ==
  Joint(view, j).x = Joint(view, k).x /\ Joint(view, j).y = Joint(view, k).y

\* the view and the joints each metric rule reads (table of the metric rules)
ViewRead(n) ==
  IF n \in {"craniovertebral_angle", "forward_head_posture", "thoracic_kyphosis"}
  THEN "right" ELSE "front"

JointsRead(n) ==
  CASE n = "craniovertebral_angle"  -> {8, 12}
    [] n = "forward_head_posture"   -> {8, 12}
    [] n = "shoulder_height_delta"  -> {11, 12}
    [] n = "thoracic_kyphosis"      -> {12, 24}
    [] n = "knee_valgus_varus"      -> {23, 25, 27}
    [] n = "foot_progression_angle" -> {29, 31}

MmMetrics == {"forward_head_posture", "shoulder_height_delta"}

\* every joint the rule of n reads is present with visibility > 0.5
PassesGate(n) ==
  \A j \in JointsRead(n) : Has(ViewRead(n), j) /\ Joint(ViewRead(n), j).visibility > 500

\* the least visibility among the joints the rule of n reads
MinVisibility(n) ==
  LET vs == {Joint(ViewRead(n), j).visibility : j \in JointsRead(n)}
  IN  CHOOSE v \in vs : \A w \in vs : v <= w

\* the pixel offset a mm metric scales
PixelOffset(n) ==
  IF n = "forward_head_posture"
  THEN Abs(Joint("right", 8).x_px - Joint("right", 12).x_px)
  ELSE Abs(Joint("front", 11).y_px - Joint("front", 12).y_px)

\* the ankle the calibration uses: the right one (28) when present, else the left (27)
HasAnkle == Has("front", 28) \/ Has("front", 27)

CalibrationAnkle == IF Has("front", 28) THEN Joint("front", 28) ELSE Joint("front", 27)

BodyHeightPx == Abs(Joint("front", 0).y_px - CalibrationAnkle.y_px)

\* the scale factor cannot be derived: front view absent, nose missing, both
\* ankles missing, or a zero pixel span
ScaleUnderivable ==
  \/ landmarks_dict.front = None
  \/ ~Has("front", 0)
  \/ ~HasAnkle
  \/ BodyHeightPx = 0

Method == output[1].calibration.method

-----------------------------------------------------------------------------
\* C1: when a height is supplied but the scale factor cannot be derived from it,
\* px_to_mm is 1 and the printed calibration method is "uncalibrated", not
\* "user_provided".  (Stated as the claim states it; the code contradicts it.)
C1_UnderivableIsUncalibrated ==
  (pc = "printed" /\ height_cm # None /\ ScaleUnderivable)
    => (px_to_mm = <<1, 1>> /\ Method = "uncalibrated")

\* C2: confidence gate.  For each of the six metrics, if the view its rule reads
\* is absent, or a joint it reads is missing or has visibility <= 0.5, the
\* metric is absent from the report; in particular for the right-view ear (8)
\* and shoulder (12) and the two head metrics.
C2_ConfidenceGate ==
  Computed => \A n \in MetricNames : ~PassesGate(n) => n \notin DOMAIN metrics

\* C2 witness: the right ear sits exactly at visibility 0.5 while every other
\* joint is usable; the report holds front-view metrics but no head metric
C2_Witness ==
  /\ pc = "computed"
  /\ Has("right", 8) /\ Joint("right", 8).visibility = 500
  /\ Has("right", 12) /\ Joint("right", 12).visibility = 1000
  /\ "craniovertebral_angle" \notin DOMAIN metrics
  /\ "forward_head_posture" \notin DOMAIN metrics
  /\ "thoracic_kyphosis" \in DOMAIN metrics
  /\ "shoulder_height_delta" \in DOMAIN metrics

\* the vector an angle metric is computed from has zero length
Degenerate(n) ==
  CASE n = "craniovertebral_angle"  -> SamePoint("right", 8, 12)
    [] n = "foot_progression_angle" -> SamePoint("front", 29, 31)
    [] n = "thoracic_kyphosis"      -> SamePoint("right", 12, 24)
    [] n = "knee_valgus_varus"      -> SamePoint("front", 25, 23) \/ SamePoint("front", 25, 27)

\* C3: geometric degeneracy omits the metric: for each of the four angle
\* metrics, when its joints pass the gate and the vector its angle is computed
\* from has zero length, the metric is absent from the report.  (Stated as the
\* claim states it; the code contradicts it.)
C3_DegenerateIsOmitted ==
  Computed =>
    \A n \in MetricNames \ MmMetrics :
      (PassesGate(n) /\ Degenerate(n)) => n \notin DOMAIN metrics

\* C4: a non-positive height is invalid calibration input: px_to_mm is 1, the
\* mm metrics equal their pixel offsets, and the printed method is
\* "uncalibrated".  (Stated as the claim states it; the code contradicts it.)
C4_NonPositiveHeightIsUncalibrated ==
  /\ (Computed /\ height_cm # None /\ height_cm[1] <= 0) =>
       /\ px_to_mm = <<1, 1>>
       /\ \A n \in MmMetrics \cap DOMAIN metrics :
            metrics[n].value = 10 * PixelOffset(n)
  /\ (pc = "printed" /\ height_cm # None /\ height_cm[1] <= 0) =>
       Method = "uncalibrated"

\* C5: calibration formula.  With a positive height, the nose and an ankle (28
\* when present, else 27) in the front view and a pixel span > 0, px_to_mm is
\* height_cm * 10 / body_height_px and every mm metric is its pixel offset times
\* that factor, rounded to one decimal; 170 cm over 1000 px gives 1.7 and a
\* shoulder offset of 15 px gives 25.5 mm.
C5_CalibrationFormula ==
  (/\ Computed
   /\ height_cm # None /\ height_cm[1] > 0
   /\ Has("front", 0) /\ HasAnkle /\ BodyHeightPx > 0)
  => /\ px_to_mm = Frac(height_cm[1] * 10, BodyHeightPx)
     /\ \A n \in MmMetrics \cap DOMAIN metrics :
          /\ metrics[n].unit = "mm"
          /\ metrics[n].value =
               RoundHalfEven(PixelOffset(n) * height_cm[1] * 10 * 10, BodyHeightPx)
     /\ (height_cm[1] = 170 /\ BodyHeightPx = 1000) => px_to_mm = <<17, 10>>
     /\ (/\ height_cm[1] = 170 /\ BodyHeightPx = 1000
         /\ "shoulder_height_delta" \in DOMAIN metrics
         /\ PixelOffset("shoulder_height_delta") = 15)
        => metrics["shoulder_height_delta"].value = 255

\* C5 witness: 170 cm, nose at y_px 100, right ankle at y_px 1100 preferred to a
\* left ankle elsewhere, shoulders at y_px 200 and 215: 25.5 mm
C5_Witness ==
  /\ pc = "computed"
  /\ height_cm = Some(170)
  /\ Has("front", 0) /\ Joint("front", 0).y_px = 100
  /\ Has("front", 28) /\ Joint("front", 28).y_px = 1100
  /\ Has("front", 27) /\ Joint("front", 27).y_px = 10
  /\ Has("front", 11) /\ Joint("front", 11).y_px = 200
  /\ Has("front", 12) /\ Joint("front", 12).y_px = 215
  /\ px_to_mm = <<17, 10>>
  /\ "shoulder_height_delta" \in DOMAIN metrics
  /\ metrics["shoulder_height_delta"] = Metric(255, "mm", 800)

\* C6: the scale factor affects only the mm metrics.  The report computed for
\* the same landmarks with any other height (or none) has the same metric
\* names, confidences and units and the same angle values; the two mm values
\* are their pixel offsets scaled by the one px_to_mm of the call.
C6_ScaleOnlyAffectsMm ==
  Computed =>
    \A h \in HeightInputs :
      LET other == calculate_metrics(landmarks_dict, h)
      IN  /\ ~other.raised
          /\ DOMAIN other.metrics = DOMAIN metrics
          /\ \A n \in DOMAIN metrics :
               /\ other.metrics[n].confidence = metrics[n].confidence
               /\ other.metrics[n].unit = metrics[n].unit
               /\ n \notin MmMetrics => other.metrics[n].value = metrics[n].value
               /\ n \in MmMetrics =>
                    /\ metrics[n].value =
                         RoundHalfEven(PixelOffset(n) * px_to_mm[1] * 10, px_to_mm[2])
                    /\ other.metrics[n].value =
                         RoundHalfEven(PixelOffset(n) * other.px_to_mm[1] * 10,
                                       other.px_to_mm[2])

\* C6 witness: a calibrated call whose report holds all six metrics and whose
\* two mm values differ from those of the uncalibrated call
C6_Witness ==
  /\ pc = "computed"
  /\ height_cm = Some(170)
  /\ px_to_mm = <<17, 10>>
  /\ DOMAIN metrics = MetricNames
  /\ \A n \in MmMetrics :
       /\ PixelOffset(n) > 0
       /\ metrics[n].value # calculate_metrics(landmarks_dict, None).metrics[n].value

\* C7: totality.  calculate_metrics never raises: it always returns a report,
\* a mapping from some of the six metric names to metrics, also when the
\* calibration pixel span is zero or points of an angle coincide.
C7_Total ==
  /\ pc # "raised"
  /\ Computed =>
       /\ DOMAIN metrics \subseteq MetricNames
       /\ \A n \in DOMAIN metrics : metrics[n].unit \in {"degrees", "mm"}

\* C7 witness: a height is supplied, the nose and the ankle have the same y_px
\* (zero span), the left knee coincides with the left hip, and the call returned
C7_Witness ==
  /\ pc = "computed"
  /\ height_cm = Some(170)
  /\ Has("front", 0) /\ HasAnkle /\ BodyHeightPx = 0
  /\ PassesGate("knee_valgus_varus") /\ SamePoint("front", 25, 23)
  /\ px_to_mm = <<1, 1>>
  /\ "knee_valgus_varus" \notin DOMAIN metrics

\* C8: confidence propagation.  A reported confidence is exactly the least
\* visibility among the joints the rule reads, times 0.7 for thoracic_kyphosis;
\* hence it is > 0.5 (> 0.35 for thoracic_kyphosis) and <= 1.
C8_ConfidenceIsMinVisibility ==
  Computed =>
    \A n \in DOMAIN metrics :
      IF n = "thoracic_kyphosis"
      THEN /\ 10 * metrics[n].confidence = 7 * MinVisibility(n)
           /\ metrics[n].confidence > 350 /\ metrics[n].confidence <= 1000
      ELSE /\ metrics[n].confidence = MinVisibility(n)
           /\ metrics[n].confidence > 500 /\ metrics[n].confidence <= 1000

\* C8 witness: knee_valgus_varus is reported where the ankle alone has the
\* least of the three visibilities, and thoracic_kyphosis is reported too
C8_Witness ==
  /\ pc = "computed"
  /\ "knee_valgus_varus" \in DOMAIN metrics
  /\ Joint("front", 23).visibility = 1000
  /\ Joint("front", 25).visibility = 1000
  /\ Joint("front", 27).visibility = 600
  /\ metrics["knee_valgus_varus"].confidence = 600
  /\ "thoracic_kyphosis" \in DOMAIN metrics
  /\ metrics["thoracic_kyphosis"].confidence = 490

\* knee_valgus_varus is computable: the three joints pass the gate and the knee
\* coincides with neither the hip nor the ankle
KneeComputable ==
  /\ PassesGate("knee_valgus_varus")
  /\ ~SamePoint("front", 25, 23)
  /\ ~SamePoint("front", 25, 27)

\* C9: knee_valgus_varus is in the report exactly when it is computable, and
\* its value is then 180 - triangleAngle(hip, knee, ankle), 180 when the
\* interior angle at the knee is 0.  (Stated as the claim states it; the code
\* contradicts it.)
C9_KneePresentIffComputable ==
  Computed =>
    /\ "knee_valgus_varus" \in DOMAIN metrics <=> KneeComputable
    /\ KneeComputable =>
         metrics["knee_valgus_varus"].value =
           RoundHalfEven(1800000 - calculate_angle(Joint("front", 23), Joint("front", 25),
                                                   Joint("front", 27)).ret[1], 1000)

=============================================================================
